---- MODULE Spec2Model ----
(***************************************************************************)
(* The streaming gateway of src/src/main.rs: the /sdk-chat handler parses *)
(* the posted body, chooses an adapter by the model name, builds the       *)
(* adapter's upstream body, opens an upstream SSE stream and maps every    *)
(* upstream item through convert_openai_to_ai_sdk, which keeps its         *)
(* tool-call accumulators in the process-wide table TOOL_CALLS             *)
(* (handle_anthropic_request does the same with                            *)
(* convert_anthropic_to_ai_sdk, which keeps no state).                     *)
(*                                                                         *)
(* Text is a sequence of one-character strings.  One JSON object text is   *)
(* the three symbols "{", <members>, "}", where <members> is a symbol that *)
(* stands for the bytes between the braces; cutting a line inside it gives *)
(* two pieces neither of which is JSON, as cutting the real bytes does.    *)
(* The byte alphabet holds no "\r".                                        *)
(***************************************************************************)
EXTENDS Integers, Sequences, FiniteSets, TLC

VARIABLES
    lock,        \* the holder of the Mutex around TOOL_CALLS, 0 when it is free
    pc,          \* per request: where its convert call is on the line under way:
                 \*   run, locked, processed, unlocked
    env,         \* the names of the environment variables that are set
    TOOL_CALLS,  \* the process-wide HashMap<String, ToolCallAccumulator>
    phase,       \* per request: idle, badrequest, servererror, panicked, sending,
                 \*   badgateway, streaming, closed, disconnected
    body,        \* per request: the body the client posted
    request,     \* per request: the ChatRequest sdk_chat parsed
    request_body,\* per request: the body sent upstream
    response,    \* per request: status and content type of the response head
    provider,    \* per request: the adapter sdk_chat chose, "none" before it did
    lines,       \* per request: lines of the chunk under conversion still to parse
    result,      \* per request: `result` of the convert call under way
    out,         \* per request: the items written to the client body
    carry,       \* per request: upstream bytes sent but not yet delivered
    nitems,      \* upstream items (chunks, errors) delivered so far, all requests
    hist,        \* history: per request, the lines parsed so far
    raw,         \* history: per request, all bytes delivered so far
    rtrig,       \* history: per frame of result, the number of the line that made it
    otrig        \* history: per item of out, the number of the event that made it

vars ==
    <<lock, pc, env, TOOL_CALLS, phase, body, request, request_body, response, provider, lines, result,
      out, carry, nitems, hist, raw, rtrig, otrig>>

\* Upstream items (chunks and transport errors) the requests receive at most,
\* all together.
MaxItems == 4

\* The concurrent requests (tasks) of the model.
Streams == {1, 2}

----------------------------------------------------------------------------
(* serde_json::Value: a tagged value; an object is a function from its     *)
(* keys, an array a sequence, a string a sequence of characters (or, for   *)
(* ids and names, which are never cut or joined, a TLA+ string).           *)

None == [t |-> "none"]
Null == [t |-> "null"]
Bool(b) == [t |-> "bool", v |-> b]
Str(s) == [t |-> "str", v |-> s]
Num(n) == [t |-> "num", v |-> n]
Arr(a) == [t |-> "arr", v |-> a]
Obj(o) == [t |-> "obj", v |-> o]
EmptyObj == Obj(<<>>)

\* Value::get(key): the member of an object, None for a missing key or a non-object.
Get(val, key) ==
    IF val.t = "obj" /\ key \in DOMAIN val.v THEN val.v[key] ELSE None

----------------------------------------------------------------------------
(* The upstream's vocabulary: the JSON bodies its events carry.            *)

InitEntry(i, id, name, a) ==
    Obj([index |-> Num(i), id |-> Str(id),
         function |-> Obj([name |-> Str(name), arguments |-> Str(a)])])

FragEntry(i, a) ==
    Obj([index |-> Num(i), function |-> Obj([arguments |-> Str(a)])])

Delta(d) == Obj([choices |-> Arr(<<Obj([delta |-> d])>>)])

ToolDelta(entries) == Delta(Obj([tool_calls |-> Arr(entries)]))

\* The members symbols a JSON object text can hold between its braces.
Members ==
    {"text", "a_init0", "a_init1", "b_init0", "frag0", "frag1", "sql",
     "block_delta", "message_stop",
     "role", "null_content", "no_choices", "empty_choices", "a_reinit0", "a_noname0",
     "block_delta2", "json_delta", "null_text", "other_delta", "ping"}

\* The object a members symbol stands for.
MembersValue(k) ==
    CASE k = "text"    -> Delta(Obj([content |-> Str(<<"h", "i">>)]))
      [] k = "a_init0" -> ToolDelta(<<InitEntry(0, "call_a0", "executeSQL", <<"{", "sql">>)>>)
      [] k = "a_init1" -> ToolDelta(<<InitEntry(1, "call_a1", "addTransformation", <<"{", "sql">>)>>)
      [] k = "b_init0" -> ToolDelta(<<InitEntry(0, "call_b0", "executeSQL", <<"{", "sql">>)>>)
      [] k = "frag0"   -> ToolDelta(<<FragEntry(0, <<"}">>)>>)
      [] k = "frag1"   -> ToolDelta(<<FragEntry(1, <<"}">>)>>)
      [] k = "sql"     -> Obj([sql |-> Str(<<"S">>)])
      [] k = "block_delta" ->
             Obj([type |-> Str("content_block_delta"),
                  delta |-> Obj([type |-> Str("text_delta"), text |-> Str(<<"h", "o">>)])])
      [] k = "message_stop" -> Obj([type |-> Str("message_stop")])
      [] k = "role" -> Delta(Obj([role |-> Str("assistant")]))
      [] k = "null_content" -> Delta(Obj([role |-> Str("assistant"), content |-> Null]))
      [] k = "no_choices" -> Obj([object |-> Str("chat.completion.chunk")])
      [] k = "empty_choices" -> Obj([choices |-> Arr(<<>>)])
      [] k = "a_reinit0" ->
             ToolDelta(<<InitEntry(0, "call_a2", "addTransformation", <<"{", "sql">>)>>)
      [] k = "a_noname0" ->
             ToolDelta(<<Obj([index |-> Num(0), id |-> Str("call_a3"),
                              function |-> Obj([arguments |-> Str(<<"{">>)])])>>)
      [] k = "block_delta2" ->
             Obj([type |-> Str("content_block_delta"),
                  delta |-> Obj([type |-> Str("text_delta"), text |-> Str(<<"!">>)])])
      [] k = "json_delta" ->
             Obj([type |-> Str("content_block_delta"),
                  delta |-> Obj([type |-> Str("input_json_delta"),
                                 partial_json |-> Str(<<"{">>)])])
      [] k = "null_text" ->
             Obj([type |-> Str("content_block_delta"), delta |-> Obj([text |-> Null])])
      [] k = "other_delta" ->
             Obj([type |-> Str("message_delta"), delta |-> Obj([text |-> Str(<<"n", "o">>)])])
      [] k = "ping" -> Obj([type |-> Str("ping")])

\* serde_json::from_str::<Value>: the value of a JSON text, or an error.
FromStr(text) ==
    IF Len(text) = 3 /\ text[1] = "{" /\ text[3] = "}" /\ text[2] \in Members
    THEN [ok |-> TRUE, value |-> MembersValue(text[2])]
    ELSE IF text = <<"{", "}">>
    THEN [ok |-> TRUE, value |-> EmptyObj]
    ELSE [ok |-> FALSE, value |-> None]

----------------------------------------------------------------------------
(* str::lines, starts_with, and the slice after the prefix.                *)

DataPrefix == <<"d", "a", "t", "a", ":", " ">>
PrefixLen == 6
DoneMarker == <<"[", "D", "O", "N", "E", "]">>

RECURSIVE FirstNewline(_, _)
FirstNewline(bytes, i) ==
    IF i > Len(bytes) THEN 0
    ELSE IF bytes[i] = "\n" THEN i
    ELSE FirstNewline(bytes, i + 1)

\* chunk.lines(): the pieces between newlines; a last piece without a newline
\* is a line too, an empty tail is not.
RECURSIVE Lines(_)
Lines(bytes) ==
    IF bytes = <<>> THEN <<>>
    ELSE LET i == FirstNewline(bytes, 1) IN
         IF i = 0 THEN <<bytes>>
         ELSE <<SubSeq(bytes, 1, i - 1)>> \o Lines(SubSeq(bytes, i + 1, Len(bytes)))

StartsWith(line, prefix) ==
    Len(line) >= Len(prefix) /\ SubSeq(line, 1, Len(prefix)) = prefix

DataPart(line) == SubSeq(line, PrefixLen + 1, Len(line))

----------------------------------------------------------------------------
(* The tool-call accumulator table and convert_openai_to_ai_sdk.           *)

\* format!("tc_{}", index)
Key(index) == <<"tc_", index>>

NoCalls == [k \in {} |-> 0]

ToolCallAccumulator(id, name, arguments) ==
    [id |-> id, name |-> name, arguments |-> arguments]

\* tc_map.insert(key, acc)
InsertIfAbsent(tc_map, key, acc) ==
    [k \in DOMAIN tc_map \cup {key} |-> IF k \in DOMAIN tc_map THEN tc_map[k] ELSE acc]
Insert(tc_map, key, acc) ==
    [k \in DOMAIN tc_map \cup {key} |-> IF k = key THEN acc ELSE tc_map[k]]

\* tc.arguments.push_str(arguments)
PushStrFront(text, arguments) == arguments \o text
PushStr(text, arguments) == text \o arguments

\* if let Some(tc) = tc_map.get_mut(&key) { tc.arguments.push_str(arguments) }
AppendOrCreate(tc_map, key, arguments) ==
    IF key \in DOMAIN tc_map
    THEN [tc_map EXCEPT ![key].arguments = PushStr(@, arguments)]
    ELSE Insert(tc_map, key, ToolCallAccumulator("", "", arguments))
AppendFragment(tc_map, key, arguments) ==
    IF key \in DOMAIN tc_map
    THEN [tc_map EXCEPT ![key].arguments = PushStr(@, arguments)]
    ELSE tc_map

\* One entry of delta.tool_calls applied to the table.
ApplyToolCall(tc_map, tool_call) ==
    LET idx == Get(tool_call, "index")
        index == IF idx.t = "num" THEN idx.v ELSE 0
        key == Key(index)
        id == Get(tool_call, "id")
        function == Get(tool_call, "function")
        nm == Get(function, "name")
        args == Get(function, "arguments")
    IN  IF id.t = "str"
        THEN IF function.t # "none"
             THEN Insert(tc_map, key,
                         ToolCallAccumulator(id.v,
                             IF nm.t = "str" THEN nm.v ELSE "",
                             IF args.t = "str" THEN args.v ELSE <<>>))
             ELSE tc_map
        ELSE IF function.t # "none" /\ args.t = "str"
             THEN AppendFragment(tc_map, key, args.v)
             ELSE tc_map

\* for tool_call in tool_calls { ... }
RECURSIVE ApplyToolCalls(_, _)
ApplyToolCalls(tc_map, tool_calls) ==
    IF tool_calls = <<>> THEN tc_map
    ELSE ApplyToolCalls(ApplyToolCall(tc_map, Head(tool_calls)), Tail(tool_calls))

\* serde_json::from_str::<Value>(&tool_call.arguments).unwrap_or_else(|_| json!({}))
ParseArgsNull(arguments) ==
    LET r == FromStr(arguments) IN IF r.ok THEN r.value ELSE None
ParseArgs(arguments) ==
    LET r == FromStr(arguments) IN IF r.ok THEN r.value ELSE EmptyObj

\* An item of the client body: the bytes before its JSON payload, the payload
\* (serialised by serde_json::to_string or written by format!), the bytes after.
Item(prefix, payload, trailer) ==
    [prefix |-> prefix, payload |-> payload, trailer |-> trailer]

\* format!("0:{}\n", serde_json::to_string(content))
TextFrameNoNewline(content) == Item(<<"0", ":">>, Str(content), <<>>)
TextFrame(content) == Item(<<"0", ":">>, Str(content), <<"\n">>)

\* format!("9:{}\n", serde_json::to_string(&json!({toolCallId, toolName, args})))
ToolFrame(tool_call) ==
    Item(<<"9", ":">>,
         Obj([toolCallId |-> Str(tool_call.id),
              toolName |-> Str(tool_call.name),
              args |-> ParseArgs(tool_call.arguments)]),
         <<"\n">>)

\* The orders in which HashMap::drain may yield the keys of the table.
DrainOrders(tc_map) ==
    LET n == Cardinality(DOMAIN tc_map) IN
    {o \in [1..n -> DOMAIN tc_map] : \A i, j \in 1..n : i # j => o[i] # o[j]}

\* tool_calls.drain(): the table once the iterator is used up.
DrainedKeepsAll(tc_map) == tc_map
Drained(tc_map) == NoCalls

\* for (_, tool_call) in tool_calls.drain() { result.push_str(...) }
DrainFrames(tc_map, order) ==
    [i \in 1..Len(order) |-> ToolFrame(tc_map[order[i]])]

\* if let Some(content) = delta.get("content").and_then(|c| c.as_str())
ContentFramesOfNull(content) ==
    IF content.t = "str" THEN <<TextFrame(content.v)>>
    ELSE IF content.t = "null" THEN <<TextFrame(<<>>)>>
    ELSE <<>>
ContentFrames(content) ==
    IF content.t = "str" THEN <<TextFrame(content.v)>> ELSE <<>>

\* The frames of a parsed event and the table after it.
ConvertEvent(parsed, tc_map) ==
    LET choices == Get(parsed, "choices")
        choice == IF choices.t = "arr" /\ Len(choices.v) > 0 THEN choices.v[1] ELSE None
        delta == Get(choice, "delta")
        content == Get(delta, "content")
        tool_calls == Get(delta, "tool_calls")
    IN  [frames |-> ContentFrames(content),
         map |-> IF tool_calls.t = "arr"
                 THEN ApplyToolCalls(tc_map, tool_calls.v) ELSE tc_map]

\* One iteration of `for line in chunk.lines()`: the frames pushed to result
\* and the table after it; `order` is the drain order the HashMap yields.
ConvertOpenAiLine(line, tc_map, order) ==
    IF ~StartsWith(line, DataPrefix) THEN [frames |-> <<>>, map |-> tc_map]
    ELSE LET data_part == DataPart(line) IN
         IF data_part = DoneMarker
         THEN [frames |-> DrainFrames(tc_map, order), map |-> Drained(tc_map)]
         ELSE LET parsed == FromStr(data_part) IN
              IF parsed.ok THEN ConvertEvent(parsed.value, tc_map)
              ELSE [frames |-> <<>>, map |-> tc_map]

\* match event_type { "content_block_delta" => delta.get("text"), _ => {} }:
\* the text member of the event's delta, None for the other event types.
DeltaTextOfAnyType(parsed) == Get(Get(parsed, "delta"), "text")
DeltaText(parsed) ==
    LET event_type == Get(parsed, "type") IN
    IF event_type.t = "str" /\ event_type.v = "content_block_delta"
    THEN Get(Get(parsed, "delta"), "text")
    ELSE None

\* convert_anthropic_to_ai_sdk, one iteration of its loop over the lines:
\* the frames pushed to result.
ConvertAnthropicLine(line) ==
    IF ~StartsWith(line, DataPrefix) THEN <<>>
    ELSE LET data_part == DataPart(line) IN
         IF data_part = DoneMarker THEN <<>>
         ELSE LET parsed == FromStr(data_part)
                  text == DeltaText(parsed.value)
              IN  IF parsed.ok /\ text.t = "str"
                  THEN <<TextFrame(text.v)>>
                  ELSE <<>>

\* The convert function of the adapter that handles the request.
ConvertLine(adapter, line, tc_map, order) ==
    IF adapter = "anthropic"
    THEN [frames |-> ConvertAnthropicLine(line), map |-> tc_map]
    ELSE ConvertOpenAiLine(line, tc_map, order)

----------------------------------------------------------------------------
(* The upstream's chunks.                                                  *)

EventLine(k) == DataPrefix \o <<"{", k, "}">> \o <<"\n">>
DoneLine == DataPrefix \o DoneMarker \o <<"\n">>
BlankLine == <<"\n">>

EventNameLine == <<"e", "v", "e", "n", "t", ":", " ", "x", "\n">>

\* The chunks the upstream of request s may deliver: whole SSE lines, one
\* event or several merged.
Chunks(s) ==
    IF provider[s] = "anthropic"
    THEN {EventNameLine \o EventLine("block_delta") \o BlankLine,
          EventLine("block_delta"), EventLine("message_stop")}
    ELSE IF s = 1
    THEN {EventLine("text"), EventLine("a_init0"), EventLine("frag0"), DoneLine,
          EventLine("a_init1") \o BlankLine \o EventLine("frag1"),
          EventLine("text") \o DoneLine}
    ELSE {EventLine("b_init0"), EventLine("frag0"), DoneLine}

\* A data line whose payload is no JSON text.
GarbageLine == DataPrefix \o <<"{", "x">> \o <<"\n">>

\* The chunks of the event specification: the events of every kind the
\* adapter's upstream can send, known to the normalizer or not, one a
\* chunk, and a chunk of two.
EventChunks(s) ==
    IF provider[s] = "anthropic"
    THEN {EventNameLine, DoneLine, GarbageLine}
         \cup {EventLine(k) : k \in {"block_delta", "block_delta2", "message_stop",
                                      "json_delta", "null_text", "other_delta", "ping"}}
    ELSE {DoneLine, GarbageLine, EventLine("a_init0") \o EventLine("frag0")}
         \cup {EventLine(k) : k \in {"text", "role", "null_content", "no_choices",
                                      "empty_choices", "a_init0", "a_reinit0",
                                      "a_noname0", "frag0"}}

\* format!("data: {{\"type\":\"error\",\"error\":\"Stream error: {}\"}}\n\n", e)
ErrorItem ==
    Item(DataPrefix,
         Obj([type |-> Str("error"), error |-> Str("Stream error: e")]),
         <<"\n", "\n">>)

----------------------------------------------------------------------------
(* ChatRequest and serde_json::from_slice.  In a request the strings are   *)
(* sequences of characters, a temperature is a number of tenths, and a     *)
(* body that is no JSON text at all is the value NotJson.                  *)

NotJson == [t |-> "garbage"]

\* default_model()
DefaultModel ==
    <<"c", "l", "a", "u", "d", "e", "-", "3", "-", "5", "-", "s", "o", "n", "n",
      "e", "t", "-", "2", "0", "2", "4", "1", "0", "2", "2">>

\* default_temperature(): 0.2
DefaultTemperature == 2

\* struct ChatMessage { role: String, content: String }
IsChatMessage(m) ==
    m.t = "obj" /\ Get(m, "role").t = "str" /\ Get(m, "content").t = "str"

\* messages: Vec<ChatMessage>, a field without default
MessagesLenient(messages) ==
    messages.t \in {"none", "arr"}
MessagesOk(messages) ==
    /\ messages.t = "arr"
    /\ \A i \in 1..Len(messages.v) : IsChatMessage(messages.v[i])

\* max_steps: Option<u32> with serde(default): absent and null are None, a
\* number must be a u32 (the numbers of the model stay below 2^31).
MaxStepsOk(maxSteps) ==
    \/ maxSteps.t \in {"none", "null"}
    \/ maxSteps.t = "num" /\ maxSteps.v >= 0

ChatRequest(messages, model, temperature, max_steps) ==
    [messages |-> messages, model |-> model, temperature |-> temperature,
     max_steps |-> max_steps]

\* serde_json::from_slice::<ChatRequest>(&body): the request, or an error.
FromSlice(b) ==
    LET messages == Get(b, "messages")
        model == Get(b, "model")
        temperature == Get(b, "temperature")
        maxSteps == Get(b, "maxSteps")
    IN  IF /\ b.t = "obj"
           /\ MessagesOk(messages)
           /\ model.t \in {"none", "str"}
           /\ temperature.t \in {"none", "num"}
           /\ MaxStepsOk(maxSteps)
        THEN [ok |-> TRUE,
              value |-> ChatRequest(
                  IF messages.t = "arr" THEN messages.v ELSE <<>>,
                  IF model.t = "str" THEN model.v ELSE DefaultModel,
                  IF temperature.t = "num" THEN temperature.v ELSE DefaultTemperature,
                  IF maxSteps.t = "num" THEN maxSteps ELSE None)]
        ELSE [ok |-> FALSE, value |-> None]

----------------------------------------------------------------------------
(* sdk_chat's choice of the adapter.                                       *)

UpperCase ==
    [A |-> "a", C |-> "c", D |-> "d", E |-> "e", G |-> "g", L |-> "l",
     O |-> "o", P |-> "p", T |-> "t", U |-> "u"]

\* str::to_lowercase
KeepCase(text) == text
ToLowercase(text) ==
    [i \in 1..Len(text) |->
        IF text[i] \in DOMAIN UpperCase THEN UpperCase[text[i]] ELSE text[i]]

\* request.model.to_lowercase().starts_with("claude")
IsClaude(model) ==
    StartsWith(ToLowercase(model), <<"c", "l", "a", "u", "d", "e">>)

Dispatch(req) == IF IsClaude(req.model) THEN "anthropic" ELSE "openai"

----------------------------------------------------------------------------
(* The bodies the adapters send upstream.                                  *)

\* create_tools(): the names of the catalog's tools.
CreateTools == <<"executeSQL", "addTransformation">>

\* request_body[k] = v
With(o, k, v) == [x \in DOMAIN o \cup {k} |-> IF x = k THEN v ELSE o[x]]

\* The messages in provider format: role and content of each.
MessagesJson(req) ==
    Arr([i \in 1..Len(req.messages) |->
            Obj([role |-> Get(req.messages[i], "role"),
                 content |-> Get(req.messages[i], "content")])])

\* A 32-bit unsigned number is kept in two 16-bit limbs, hi * 2^16 + lo; a
\* number whose hi limb does not fit 16 bits does not fit a u32.
Limb == 65536

U32(n) == [hi |-> n \div Limb, lo |-> n % Limb]

\* The product n * k of the integers, in limbs (hi is not cut).
Product(n, k) ==
    LET lo == (n % Limb) * k
        hi == (n \div Limb) * k + (lo \div Limb)
    IN  [hi |-> hi, lo |-> lo % Limb]

Overflows(x) == x.hi >= Limb

Wrapped(x) == [hi |-> x.hi % Limb, lo |-> x.lo]

DefaultMaxTokens == 4096
TokensPerStep == 1000

\* max_steps * 1000 on u32: the product when it fits; when it does not, the
\* wrapped product (overflow checks off) or a panic (overflow checks on).
MulOutcomes(n, k) ==
    IF Overflows(Product(n, k))
    THEN {[panic |-> FALSE, v |-> Wrapped(Product(n, k))], [panic |-> TRUE, v |-> U32(0)]}
    ELSE {[panic |-> FALSE, v |-> Product(n, k)]}

\* The outcomes of computing max_tokens.
MaxTokensOutcomes(req, tools) ==
    IF tools # <<>> /\ req.max_steps.t = "num"
    THEN MulOutcomes(req.max_steps.v, TokensPerStep)
    ELSE {[panic |-> FALSE, v |-> U32(DefaultMaxTokens)]}

AnthropicTools(tools) ==
    Arr([i \in 1..Len(tools) |-> Obj([name |-> Str(<<tools[i]>>)])])

\* handle_anthropic_request's request_body
AnthropicBody(req, tools, max_tokens) ==
    LET b0 == [model |-> Str(req.model), messages |-> MessagesJson(req),
               stream |-> Bool(TRUE), max_tokens |-> Num(max_tokens)]
    IN  Obj(IF tools # <<>> THEN With(b0, "tools", AnthropicTools(tools)) ELSE b0)

\* request.model.starts_with("o1") || request.model.starts_with("o3")
IsO1OrO3Model(model) ==
    StartsWith(model, <<"o", "1">>) \/ StartsWith(model, <<"o", "3">>)

\* request.model.starts_with("gpt-5")
IsGpt5Model(model) == StartsWith(model, <<"g", "p", "t", "-", "5">>)

\* !is_o1_or_o3_model && !is_gpt5_model
TemperatureUnlessO1O3(model) == ~IsO1OrO3Model(model)
TemperatureSupported(model) == ~IsO1OrO3Model(model) /\ ~IsGpt5Model(model)

\* !is_o1_or_o3_model
ToolsAlways(model) == TRUE
ToolsSupported(model) == ~IsO1OrO3Model(model)

OpenAiTools(tools) ==
    Arr([i \in 1..Len(tools) |->
            Obj([type |-> Str("function"),
                 function |-> Obj([name |-> Str(<<tools[i]>>)])])])

\* handle_openai_request's request_body
OpenAiBody(req, tools) ==
    LET b0 == [model |-> Str(req.model), messages |-> MessagesJson(req),
               stream |-> Bool(TRUE)]
        b1 == IF TemperatureSupported(req.model) /\ req.temperature # 0
              THEN With(b0, "temperature", Num(req.temperature)) ELSE b0
        b2 == IF tools # <<>> /\ ToolsSupported(req.model)
              THEN With(b1, "tools", OpenAiTools(tools)) ELSE b1
    IN  Obj(b2)

----------------------------------------------------------------------------
(* The bodies the clients post.                                            *)

\* A body with the given members; None stands for a member left out.
RECURSIVE MakeObject(_, _)
MakeObject(keys, vals) ==
    IF keys = <<>> THEN <<>>
    ELSE IF Head(vals).t = "none" THEN MakeObject(Tail(keys), Tail(vals))
    ELSE With(MakeObject(Tail(keys), Tail(vals)), Head(keys), Head(vals))

ClientBody(messages, model, temperature, maxSteps) ==
    Obj(MakeObject(<<"messages", "model", "temperature", "maxSteps">>,
                   <<messages, model, temperature, maxSteps>>))

UserMessage == Obj([role |-> Str(<<"u">>), content |-> Str(<<"q">>)])

MessagesInputs ==
    {None, Null, Arr(<<>>), Arr(<<UserMessage>>),
     Arr(<<Obj([role |-> Str(<<"u">>)])>>),
     Arr(<<UserMessage, Obj([content |-> Str(<<"q">>)])>>)}

ModelNames ==
    {<<>>,
     <<"c", "l", "a", "u", "d", "e", "-", "3">>,
     <<"C", "l", "a", "u", "d", "e">>,
     <<"C", "L", "A", "U", "D", "E">>,
     <<"c", "l", "a", "u", "d">>,
     <<"x", "c", "l", "a", "u", "d", "e">>,
     <<"g", "p", "t", "-", "4">>,
     <<"g", "p", "t", "-", "5">>,
     <<"g", "p", "t", "-", "5", "-", "m">>,
     <<"G", "P", "T", "-", "5">>,
     <<"o", "1">>,
     <<"o", "1", "-", "m">>,
     <<"o", "3">>,
     <<"O", "1">>,
     <<"o", "4">>}

ModelInputs == {None, Null} \cup {Str(m) : m \in ModelNames}

TemperatureInputs == {None, Null, Num(0), Num(2), Num(7)}

\* 4294967 is the largest maxSteps whose thousandfold fits a u32.
MaxStepsInputs ==
    {None, Null, Num(0), Num(5), Num(4294967), Num(4294968), Num(-1), Bool(TRUE)}

Bodies ==
    {NotJson, Null} \cup
    {ClientBody(ms, m, t, n) :
        ms \in MessagesInputs, m \in ModelInputs,
        t \in TemperatureInputs, n \in MaxStepsInputs}

\* The bodies of the requests of the streaming specifications: request 1
\* names a Claude or an OpenAI model, request 2 an OpenAI model.
StreamingBodies(s) ==
    {ClientBody(Arr(<<UserMessage>>), Str(m), None, None) :
        m \in IF s = 1
              THEN {<<"c", "l", "a", "u", "d", "e", "-", "3">>, <<"g", "p", "t", "-", "4">>}
              ELSE {<<"g", "p", "t", "-", "4">>}}

----------------------------------------------------------------------------
(* The requests.                                                           *)

ApiKeys == {"ANTHROPIC_API_KEY", "OPENAI_API_KEY"}

NoResponse == [status |-> 0, content_type |-> "none"]

\* HttpResponse::Ok() with the streaming headers.
StreamingResponse == [status |-> 200, content_type |-> "text/event-stream"]

\* actix_web::error::ErrorBadRequest, ErrorInternalServerError, ErrorBadGateway
ErrorResponse(status) == [status |-> status, content_type |-> "text/plain"]

Init ==
    /\ lock = 0
    /\ pc = [s \in Streams |-> "run"]
    /\ env = ApiKeys
    /\ TOOL_CALLS = NoCalls
    /\ phase = [s \in Streams |-> "idle"]
    /\ body = [s \in Streams |-> None]
    /\ request = [s \in Streams |-> None]
    /\ request_body = [s \in Streams |-> None]
    /\ response = [s \in Streams |-> NoResponse]
    /\ provider = [s \in Streams |-> "none"]
    /\ lines = [s \in Streams |-> <<>>]
    /\ result = [s \in Streams |-> <<>>]
    /\ out = [s \in Streams |-> <<>>]
    /\ carry = [s \in Streams |-> <<>>]
    /\ nitems = 0
    /\ hist = [s \in Streams |-> <<>>]
    /\ raw = [s \in Streams |-> <<>>]
    /\ rtrig = [s \in Streams |-> <<>>]
    /\ otrig = [s \in Streams |-> <<>>]

\* The number of the upstream event (line or error) request s handles next.
NextEvent(s) == Len(hist[s]) + 1

\* handle_anthropic_request up to send(): the key is read, the body built.
HandleAnthropicRequest(s, req) ==
    IF "ANTHROPIC_API_KEY" \notin env
    THEN /\ phase' = [phase EXCEPT ![s] = "servererror"]
         /\ response' = [response EXCEPT ![s] = ErrorResponse(500)]
         /\ UNCHANGED request_body
    ELSE \E m \in MaxTokensOutcomes(req, CreateTools) :
            IF m.panic
            THEN /\ phase' = [phase EXCEPT ![s] = "panicked"]
                 /\ UNCHANGED <<request_body, response>>
            ELSE /\ phase' = [phase EXCEPT ![s] = "sending"]
                 /\ request_body' =
                        [request_body EXCEPT ![s] = AnthropicBody(req, CreateTools, m.v)]
                 /\ UNCHANGED response

\* handle_openai_request up to send(): the key is read, the body built.
HandleOpenAiRequest(s, req) ==
    IF "OPENAI_API_KEY" \notin env
    THEN /\ phase' = [phase EXCEPT ![s] = "servererror"]
         /\ response' = [response EXCEPT ![s] = ErrorResponse(500)]
         /\ UNCHANGED request_body
    ELSE /\ phase' = [phase EXCEPT ![s] = "sending"]
         /\ request_body' = [request_body EXCEPT ![s] = OpenAiBody(req, CreateTools)]
         /\ UNCHANGED response

\* sdk_chat on the body b, up to the adapter's send(): the body is parsed,
\* the adapter chosen by the model name and run.
HandleChat(s, b) ==
    /\ body' = [body EXCEPT ![s] = b]
    /\ LET parsed == FromSlice(b) IN
       IF ~parsed.ok
       THEN /\ phase' = [phase EXCEPT ![s] = "badrequest"]
            /\ response' = [response EXCEPT ![s] = ErrorResponse(400)]
            /\ UNCHANGED <<request, request_body, provider>>
       ELSE /\ request' = [request EXCEPT ![s] = parsed.value]
            /\ provider' = [provider EXCEPT ![s] = Dispatch(parsed.value)]
            /\ IF Dispatch(parsed.value) = "anthropic"
               THEN HandleAnthropicRequest(s, parsed.value)
               ELSE HandleOpenAiRequest(s, parsed.value)
    /\ UNCHANGED <<lock, pc, env, TOOL_CALLS, lines, result, out, carry, nitems, hist, raw, rtrig, otrig>>

\* A client posts one of the streaming specifications' bodies.
SdkChat(s) ==
    /\ phase[s] = "idle"
    /\ \E b \in StreamingBodies(s) : HandleChat(s, b)

\* A client posts any body.
SdkChatAny(s) ==
    /\ phase[s] = "idle"
    /\ \E b \in Bodies : HandleChat(s, b)

\* The upstream answers with a success status: the response is started with
\* the streaming headers and the mapped byte stream as its body.
Connect(s) ==
    /\ phase[s] = "sending"
    /\ phase' = [phase EXCEPT ![s] = "streaming"]
    /\ response' = [response EXCEPT ![s] = StreamingResponse]
    /\ UNCHANGED <<lock, pc, env, body, request, request_body, provider, TOOL_CALLS, lines,
                   result, out, carry, nitems, hist, raw, rtrig, otrig>>

\* send() fails or the status is not a success: ErrorBadGateway, and the
\* upstream's body, if any, is logged and dropped.
ConnectFailInline(s) ==
    /\ phase[s] = "sending"
    /\ phase' = [phase EXCEPT ![s] = "badgateway"]
    /\ response' = [response EXCEPT ![s] = StreamingResponse]
    /\ out' = [out EXCEPT ![s] = <<ErrorItem>>]
    /\ UNCHANGED <<lock, pc, env, body, request, request_body, provider, TOOL_CALLS, lines,
                   result, carry, nitems, hist, raw, rtrig, otrig>>
ConnectFail(s) ==
    /\ phase[s] = "sending"
    /\ phase' = [phase EXCEPT ![s] = "badgateway"]
    /\ response' = [response EXCEPT ![s] = ErrorResponse(502)]
    /\ UNCHANGED <<lock, pc, env, body, request, request_body, provider, TOOL_CALLS, lines,
                   result, out, carry, nitems, hist, raw, rtrig, otrig>>

\* Ok(chunk): convert_openai_to_ai_sdk starts on the chunk's lines; a chunk
\* without lines converts to the empty string at once.
Deliver(s, bytes) ==
    /\ lines' = [lines EXCEPT ![s] = Lines(bytes)]
    /\ raw' = [raw EXCEPT ![s] = @ \o bytes]
    /\ nitems' = nitems + 1
    /\ UNCHANGED <<lock, pc, env, body, request, request_body, response, provider, TOOL_CALLS, phase, result, out, hist, rtrig, otrig>>

RecvChunk(s) ==
    /\ phase[s] = "streaming"
    /\ lines[s] = <<>>
    /\ carry[s] = <<>>
    /\ nitems < MaxItems
    /\ \E c \in Chunks(s) : Deliver(s, c)
    /\ UNCHANGED carry

\* The items of a finished convert call are written to the client body
\* after the items written before.
WrittenFirst(sent, items) == items \o sent
Written(sent, items) == sent \o items

\* result.push_str(...)
Pushed(res, frames) == res \o frames

\* One line of the chunk under conversion; the call returns after the last
\* line and its result is written to the client.
ProcessLine(s) ==
    /\ lines[s] # <<>>
    /\ \E order \in DrainOrders(TOOL_CALLS) :
         LET r == ConvertLine(provider[s], Head(lines[s]), TOOL_CALLS, order)
             res == Pushed(result[s], r.frames)
             trig == Pushed(rtrig[s], [i \in 1..Len(r.frames) |-> NextEvent(s)])
             last == Tail(lines[s]) = <<>>
         IN  /\ TOOL_CALLS' = r.map
             /\ lines' = [lines EXCEPT ![s] = Tail(@)]
             /\ hist' = [hist EXCEPT ![s] = Append(@, Head(lines[s]))]
             /\ result' = [result EXCEPT ![s] = IF last THEN <<>> ELSE res]
             /\ rtrig' = [rtrig EXCEPT ![s] = IF last THEN <<>> ELSE trig]
             /\ out' = [out EXCEPT ![s] = IF last THEN Written(@, res) ELSE @]
             /\ otrig' = [otrig EXCEPT ![s] = IF last THEN Written(@, trig) ELSE @]
    /\ UNCHANGED <<lock, pc, env, body, request, request_body, response, provider, phase, carry, nitems, raw>>

\* The line makes the convert call of the adapter take the lock: the
\* sentinel, and an event whose delta has a tool_calls array, in
\* convert_openai_to_ai_sdk; convert_anthropic_to_ai_sdk takes no lock.
TakesLock(adapter, line) ==
    /\ adapter = "openai"
    /\ StartsWith(line, DataPrefix)
    /\ \/ DataPart(line) = DoneMarker
       \/ LET parsed == FromStr(DataPart(line))
               choices == Get(parsed.value, "choices")
               choice == IF choices.t = "arr" /\ Len(choices.v) > 0
                         THEN choices.v[1] ELSE None
           IN  parsed.ok /\ Get(Get(choice, "delta"), "tool_calls").t = "arr"

\* A line that takes no lock, converted in one step.
ProcessFree(s) ==
    /\ lines[s] # <<>>
    /\ pc[s] = "run"
    /\ ~TakesLock(provider[s], Head(lines[s]))
    /\ ProcessLine(s)

\* TOOL_CALLS.lock().unwrap(): the call goes on once the Mutex is free.
Lock(s) ==
    /\ lines[s] # <<>>
    /\ pc[s] = "run"
    /\ TakesLock(provider[s], Head(lines[s]))
    /\ lock = 0
    /\ lock' = s
    /\ pc' = [pc EXCEPT ![s] = "locked"]
    /\ UNCHANGED <<env, body, request, request_body, response, provider, TOOL_CALLS,
                   phase, lines, result, out, carry, nitems, hist, raw, rtrig, otrig>>

\* The block under the guard: the table is drained or updated and the
\* frames are pushed to result.
Critical(s) ==
    /\ pc[s] = "locked"
    /\ \E order \in DrainOrders(TOOL_CALLS) :
         LET r == ConvertLine(provider[s], Head(lines[s]), TOOL_CALLS, order) IN
         /\ TOOL_CALLS' = r.map
         /\ result' = [result EXCEPT ![s] = Pushed(@, r.frames)]
         /\ rtrig' = [rtrig EXCEPT ![s] =
                         Pushed(@, [i \in 1..Len(r.frames) |-> NextEvent(s)])]
    /\ pc' = [pc EXCEPT ![s] = "processed"]
    /\ UNCHANGED <<lock, env, body, request, request_body, response, provider,
                   phase, lines, out, carry, nitems, hist, raw, otrig>>

\* The guard goes out of scope at the end of its block.
UnlockKeepsLock(s) ==
    /\ pc[s] = "processed"
    /\ pc' = [pc EXCEPT ![s] = "unlocked"]
    /\ UNCHANGED <<lock, env, body, request, request_body, response, provider, TOOL_CALLS,
                   phase, lines, result, out, carry, nitems, hist, raw, rtrig, otrig>>
Unlock(s) ==
    /\ pc[s] = "processed"
    /\ lock' = 0
    /\ pc' = [pc EXCEPT ![s] = "unlocked"]
    /\ UNCHANGED <<env, body, request, request_body, response, provider, TOOL_CALLS,
                   phase, lines, result, out, carry, nitems, hist, raw, rtrig, otrig>>

\* The loop goes to the next line; after the last line the call returns
\* and its result is written to the client.
FinishLine(s) ==
    /\ pc[s] = "unlocked"
    /\ LET last == Tail(lines[s]) = <<>> IN
       /\ lines' = [lines EXCEPT ![s] = Tail(@)]
       /\ hist' = [hist EXCEPT ![s] = Append(@, Head(lines[s]))]
       /\ result' = [result EXCEPT ![s] = IF last THEN <<>> ELSE @]
       /\ rtrig' = [rtrig EXCEPT ![s] = IF last THEN <<>> ELSE @]
       /\ out' = [out EXCEPT ![s] = IF last THEN Written(@, result[s]) ELSE @]
       /\ otrig' = [otrig EXCEPT ![s] = IF last THEN Written(@, rtrig[s]) ELSE @]
    /\ pc' = [pc EXCEPT ![s] = "run"]
    /\ UNCHANGED <<lock, env, body, request, request_body, response, provider, TOOL_CALLS,
                   phase, carry, nitems, raw>>

\* Err(e): the item is replaced by the error message and the stream goes on.
TransportErrorAborts(s) ==
    /\ phase[s] = "streaming"
    /\ lines[s] = <<>>
    /\ nitems < MaxItems
    /\ phase' = [phase EXCEPT ![s] = "closed"]
    /\ hist' = [hist EXCEPT ![s] = Append(@, <<"Err">>)]
    /\ nitems' = nitems + 1
    /\ UNCHANGED <<lock, pc, env, body, request, request_body, response, provider, TOOL_CALLS, lines, result, out, carry, raw, rtrig, otrig>>
TransportError(s) ==
    /\ phase[s] = "streaming"
    /\ lines[s] = <<>>
    /\ nitems < MaxItems
    /\ out' = [out EXCEPT ![s] = Written(@, <<ErrorItem>>)]
    /\ otrig' = [otrig EXCEPT ![s] = Written(@, <<NextEvent(s)>>)]
    /\ hist' = [hist EXCEPT ![s] = Append(@, <<"Err">>)]
    /\ nitems' = nitems + 1
    /\ UNCHANGED <<lock, pc, env, body, request, request_body, response, provider, TOOL_CALLS, phase, lines, result, carry, raw, rtrig>>

\* The upstream body ends (with or without a [DONE] line).
UpstreamEnd(s) ==
    /\ phase[s] = "streaming"
    /\ lines[s] = <<>>
    /\ carry[s] = <<>>
    /\ phase' = [phase EXCEPT ![s] = "closed"]
    /\ UNCHANGED <<lock, pc, env, body, request, request_body, response, provider, TOOL_CALLS, lines, result, out, carry, nitems, hist, raw, rtrig, otrig>>

\* The client closes its connection: the body stream is dropped.
ClientDisconnect(s) ==
    /\ phase[s] = "streaming"
    /\ lines[s] = <<>>
    /\ phase' = [phase EXCEPT ![s] = "disconnected"]
    /\ carry' = [carry EXCEPT ![s] = <<>>]
    /\ UNCHANGED <<lock, pc, env, body, request, request_body, response, provider, TOOL_CALLS, lines, result, out, nitems, hist, raw, rtrig, otrig>>

\* The transport cuts the upstream's bytes inside a line: the first piece is
\* delivered as a chunk of its own, the rest is still under way.
RecvPartial(s) ==
    /\ phase[s] = "streaming"
    /\ lines[s] = <<>>
    /\ carry[s] = <<>>
    /\ nitems + 1 < MaxItems
    /\ \E c \in Chunks(s) : \E n \in 1..(Len(c) - 1) :
         /\ Deliver(s, SubSeq(c, 1, n))
         /\ carry' = [carry EXCEPT ![s] = SubSeq(c, n + 1, Len(c))]

\* The rest of a cut line arrives as the next chunk.
DeliverCarry(s) ==
    /\ phase[s] = "streaming"
    /\ lines[s] = <<>>
    /\ carry[s] # <<>>
    /\ Deliver(s, carry[s])
    /\ carry' = [carry EXCEPT ![s] = <<>>]

Next ==
    \E s \in Streams :
        \/ SdkChat(s)
        \/ Connect(s)
        \/ ConnectFail(s)
        \/ RecvChunk(s)
        \/ ProcessLine(s)
        \/ TransportError(s)
        \/ UpstreamEnd(s)
        \/ ClientDisconnect(s)

\* Concurrent requests; every chunk ends at a line end.
Spec == Init /\ [][Next]_vars

\* One request in the life of the process: request 1 alone (request 2 was
\* rejected for its body), the table empty.
InitSingle ==
    /\ lock = 0
    /\ pc = [s \in Streams |-> "run"]
    /\ env = ApiKeys
    /\ TOOL_CALLS = NoCalls
    /\ phase = [s \in Streams |-> IF s = 1 THEN "idle" ELSE "badrequest"]
    /\ body = [s \in Streams |-> IF s = 1 THEN None ELSE NotJson]
    /\ request = [s \in Streams |-> None]
    /\ request_body = [s \in Streams |-> None]
    /\ response = [s \in Streams |-> IF s = 1 THEN NoResponse ELSE ErrorResponse(400)]
    /\ provider = [s \in Streams |-> "none"]
    /\ lines = [s \in Streams |-> <<>>]
    /\ result = [s \in Streams |-> <<>>]
    /\ out = [s \in Streams |-> <<>>]
    /\ carry = [s \in Streams |-> <<>>]
    /\ nitems = 0
    /\ hist = [s \in Streams |-> <<>>]
    /\ raw = [s \in Streams |-> <<>>]
    /\ rtrig = [s \in Streams |-> <<>>]
    /\ otrig = [s \in Streams |-> <<>>]

SpecSingle == InitSingle /\ [][Next]_vars

\* Requests one after the other: a request is started only while no other
\* request is streaming.
ConnectAlone(s) ==
    /\ \A t \in Streams : phase[t] # "streaming"
    /\ Connect(s)

NextSerial ==
    \E s \in Streams :
        \/ SdkChat(s)
        \/ ConnectAlone(s)
        \/ ConnectFail(s)
        \/ RecvChunk(s)
        \/ ProcessLine(s)
        \/ TransportError(s)
        \/ UpstreamEnd(s)
        \/ ClientDisconnect(s)

SpecSerial == Init /\ [][NextSerial]_vars

\* One request whose upstream bytes the transport may cut anywhere.
NextSplit ==
    \E s \in Streams :
        \/ SdkChat(s)
        \/ Connect(s)
        \/ ConnectFail(s)
        \/ RecvChunk(s)
        \/ RecvPartial(s)
        \/ DeliverCarry(s)
        \/ ProcessLine(s)
        \/ TransportError(s)
        \/ UpstreamEnd(s)
        \/ ClientDisconnect(s)

SpecSplit == InitSingle /\ [][NextSplit]_vars

\* One request whose upstream sends events of every kind.
RecvEvent(s) ==
    /\ phase[s] = "streaming"
    /\ lines[s] = <<>>
    /\ carry[s] = <<>>
    /\ nitems < MaxItems
    /\ \E c \in EventChunks(s) : Deliver(s, c)
    /\ UNCHANGED carry

NextEvents ==
    \E s \in Streams :
        \/ SdkChat(s)
        \/ Connect(s)
        \/ ConnectFail(s)
        \/ RecvEvent(s)
        \/ ProcessLine(s)

SpecEvents == InitSingle /\ [][NextEvents]_vars

\* The chunks of the lock specification.
LockChunks(s) ==
    IF provider[s] = "anthropic" THEN {EventLine("block_delta")}
    ELSE IF s = 1
    THEN {EventLine("a_init0") \o DoneLine, DoneLine}
    ELSE {EventLine("b_init0"), DoneLine}

RecvLockChunk(s) ==
    /\ phase[s] = "streaming"
    /\ lines[s] = <<>>
    /\ carry[s] = <<>>
    /\ nitems < MaxItems
    /\ \E c \in LockChunks(s) : Deliver(s, c)
    /\ UNCHANGED carry

\* Concurrent requests, the steps of a convert call on a line that takes
\* the lock taken one by one.
NextLock ==
    \E s \in Streams :
        \/ SdkChat(s)
        \/ Connect(s)
        \/ RecvLockChunk(s)
        \/ ProcessFree(s)
        \/ Lock(s)
        \/ Critical(s)
        \/ Unlock(s)
        \/ FinishLine(s)

\* The steps ProcessFree and Critical by what they do to lines and pc: in
\* NextLock no other action of request s takes a line that needs no lock
\* off lines[s], or moves pc[s] from locked to processed.
FreeDone(s) ==
    /\ lines[s] # <<>>
    /\ pc[s] = "run"
    /\ ~TakesLock(provider[s], Head(lines[s]))
    /\ lines' = [lines EXCEPT ![s] = Tail(@)]

CriticalDone(s) ==
    /\ pc[s] = "locked"
    /\ pc' = [pc EXCEPT ![s] = "processed"]

\* A convert call is synchronous code on a thread that runs: each of its
\* steps is taken once it can be, and a call that waits for the Mutex gets
\* it if it is free again and again.  The upstreams and the clients owe
\* nothing.
FairLock ==
    \A s \in Streams :
        /\ WF_lines(FreeDone(s))
        /\ SF_vars(Lock(s))
        /\ WF_pc(CriticalDone(s))
        /\ WF_vars(Unlock(s))
        /\ WF_vars(FinishLine(s))

SpecLock == Init /\ [][NextLock]_vars /\ FairLock

\* The requests up to the start of their responses, any body posted, the
\* keys set or not.
InitRequest ==
    /\ lock = 0
    /\ pc = [s \in Streams |-> "run"]
    /\ env \in SUBSET ApiKeys
    /\ TOOL_CALLS = NoCalls
    /\ phase = [s \in Streams |-> IF s = 1 THEN "idle" ELSE "badrequest"]
    /\ body = [s \in Streams |-> IF s = 1 THEN None ELSE NotJson]
    /\ request = [s \in Streams |-> None]
    /\ request_body = [s \in Streams |-> None]
    /\ response = [s \in Streams |-> IF s = 1 THEN NoResponse ELSE ErrorResponse(400)]
    /\ provider = [s \in Streams |-> "none"]
    /\ lines = [s \in Streams |-> <<>>]
    /\ result = [s \in Streams |-> <<>>]
    /\ out = [s \in Streams |-> <<>>]
    /\ carry = [s \in Streams |-> <<>>]
    /\ nitems = 0
    /\ hist = [s \in Streams |-> <<>>]
    /\ raw = [s \in Streams |-> <<>>]
    /\ rtrig = [s \in Streams |-> <<>>]
    /\ otrig = [s \in Streams |-> <<>>]

NextRequest ==
    \E s \in Streams :
        \/ SdkChatAny(s)
        \/ Connect(s)
        \/ ConnectFail(s)

SpecRequest == InitRequest /\ [][NextRequest]_vars

----------------------------------------------------------------------------
(* What the upstream sent, read from the histories.                        *)

DoneSeen == DataPrefix \o DoneMarker
ErrSeen == <<"Err">>
LineOf(k) == DataPrefix \o <<"{", k, "}">>

\* Every item request s has produced so far, written or still in result,
\* and the number of the upstream event that made each.
AllItems(s) == out[s] \o result[s]
AllTrig(s) == otrig[s] \o rtrig[s]

IsToolFrame(item) == item.prefix = <<"9", ":">>
IsTextFrame(item) == item.prefix = <<"0", ":">>

\* The positions of the `9` frames of request s.
ToolFramesOf(s) ==
    LET items == AllItems(s) IN {j \in 1..Len(items) : IsToolFrame(items[j])}

\* The ids the upstream of request s gives its tool calls.
OwnIds(s) == IF s = 1 THEN {"call_a0", "call_a1"} ELSE {"call_b0"}

Ended(s) == phase[s] \in {"closed", "disconnected"}

\* The `9` frame of the call with this id, name and complete argument text.
FrameOfCall(id, name, text) ==
    Item(<<"9", ":">>,
         Obj([toolCallId |-> Str(id), toolName |-> Str(name),
              args |-> IF FromStr(text).ok THEN FromStr(text).value ELSE EmptyObj]),
         <<"\n">>)

\* The members symbol of a parsed `data: {...}` line, "-" for any other line.
SymOf(l) ==
    IF /\ Len(l) = PrefixLen + 3
       /\ SubSeq(l, 1, PrefixLen) = DataPrefix
       /\ l[PrefixLen + 1] = "{" /\ l[PrefixLen + 3] = "}"
    THEN l[PrefixLen + 2] ELSE "-"

ToolSyms == {"a_init0", "a_init1", "b_init0", "frag0", "frag1", "a_reinit0", "a_noname0"}

\* The tool_calls entries the upstream put in a line.
SentEntries(l) ==
    IF SymOf(l) \in ToolSyms
    THEN MembersValue(SymOf(l)).v.choices.v[1].v.delta.v.tool_calls.v
    ELSE <<>>

EIndex(e) == IF "index" \in DOMAIN e.v THEN e.v.index.v ELSE 0
EIsInit(e) ==
    /\ {"id", "function"} \subseteq DOMAIN e.v
    /\ {"name", "arguments"} \subseteq DOMAIN e.v.function.v
EIsFrag(e) ==
    /\ "id" \notin DOMAIN e.v
    /\ "function" \in DOMAIN e.v
    /\ "arguments" \in DOMAIN e.v.function.v
EArgs(e) == e.v.function.v.arguments.v

Indices == {0, 1}

Max(S) == CHOOSE x \in S : \A y \in S : y <= x

\* The entries of lines m..n of a history, in arrival order.
RECURSIVE EntriesIn(_, _, _)
EntriesIn(h, m, n) ==
    IF m > n THEN <<>> ELSE SentEntries(h[m]) \o EntriesIn(h, m + 1, n)

\* The entries that arrived before line n and after the last sentinel before it.
OpenEntries(h, n) ==
    EntriesIn(h, Max({0} \cup {j \in 1..(n - 1) : h[j] = DoneSeen}) + 1, n - 1)

\* The place in E of the last initiating entry for index i, 0 if there is none.
LastInit(E, i) ==
    Max({0} \cup {p \in 1..Len(E) : EIsInit(E[p]) /\ EIndex(E[p]) = i})

\* The fragments for index i at places p.. of E, joined in arrival order.
RECURSIVE FragsFrom(_, _, _)
FragsFrom(E, i, p) ==
    IF p > Len(E) THEN <<>>
    ELSE (IF EIsFrag(E[p]) /\ EIndex(E[p]) = i THEN EArgs(E[p]) ELSE <<>>)
         \o FragsFrom(E, i, p + 1)

\* The positions of the items of request s made by its upstream event n.
MadeBy(s, n) == {j \in 1..Len(AllItems(s)) : AllTrig(s)[j] = n}

IdOf(item) == item.payload.v.toolCallId.v

\* A step in which request s parses line l.
Parses(s, l) == lines[s] # <<>> /\ Head(lines[s]) = l /\ hist'[s] = Append(hist[s], l)

\* The items request s makes in a step.
NewItems(s) == SubSeq(AllItems(s)', Len(AllItems(s)) + 1, Len(AllItems(s)'))

----------------------------------------------------------------------------
\* The scenario of request s: the initiating entry of its call at index 0,
\* one fragment, the sentinel.
C1_Scenario(s) ==
    <<LineOf(IF s = 1 THEN "a_init0" ELSE "b_init0"), LineOf("frag0"), DoneSeen>>

C1_OnScenario(s) ==
    /\ Len(hist[s]) <= 3
    /\ hist[s] = SubSeq(C1_Scenario(s), 1, Len(hist[s]))

C1_OwnFrame(s) ==
    FrameOfCall(IF s = 1 THEN "call_a0" ELSE "call_b0", "executeSQL", <<"{", "sql", "}">>)

\* C1: two concurrent streams that each initiate a call at index 0, append
\* their fragment and receive [DONE] each emit exactly one `9` frame, with
\* the id, name and arguments of their own call: whenever both requests have
\* parsed nothing but a prefix of their scenario, a request that has parsed
\* all of it has emitted exactly its own frame, and one that has not yet
\* parsed its [DONE] has emitted none.
C1_StreamsIsolated ==
    (\A s \in Streams : C1_OnScenario(s)) =>
        \A s \in Streams :
            AllItems(s) = IF Len(hist[s]) = 3 THEN <<C1_OwnFrame(s)>> ELSE <<>>

----------------------------------------------------------------------------
\* C5: once a request's stream has ended (upstream closed, with or without
\* the sentinel, or client disconnect) the table holds no accumulator the
\* request created.
C5_NoAccumulatorOutlivesStream ==
    \A s \in Streams : Ended(s) =>
        \A k \in DOMAIN TOOL_CALLS : TOOL_CALLS[k].id \notin OwnIds(s)

----------------------------------------------------------------------------
\* C6: in one client stream the frames appear in the order in which their
\* triggering upstream events were parsed: the event numbers of the items
\* never decrease along the body.
C6_FramesInEventOrder ==
    \A s \in Streams : \A i, j \in 1..Len(AllItems(s)) :
        i < j => AllTrig(s)[i] <= AllTrig(s)[j]

\* Request 1 has written a text frame of one chunk, then the `9` frame of a
\* sentinel and a text frame of the same later chunk.
C6_Witness ==
    /\ Len(out[1]) >= 3
    /\ IsTextFrame(out[1][1]) /\ otrig[1][1] = 1
    /\ \E j \in 2..Len(out[1]) :
         /\ IsToolFrame(out[1][j]) /\ IsTextFrame(out[1][j - 1])
         /\ otrig[1][j] = otrig[1][j - 1] + 1

----------------------------------------------------------------------------
\* A unified frame: tag `0` with a JSON string or tag `9` with a
\* toolCallId/toolName/args object, a colon between, one newline after.
IsUnifiedFrame(item) ==
    /\ item.trailer = <<"\n">>
    /\ \/ IsTextFrame(item) /\ item.payload.t = "str"
       \/ /\ IsToolFrame(item)
          /\ item.payload.t = "obj"
          /\ DOMAIN item.payload.v = {"toolCallId", "toolName", "args"}

\* C7 as stated: every item written to a started response is a `0` or `9`
\* unified frame, a mid-stream transport error included.
C7_EveryLineUnifiedFrame ==
    \A s \in Streams : \A i \in 1..Len(out[s]) : IsUnifiedFrame(out[s][i])

\* The item a transport error writes: a `data: ` line holding a JSON object
\* with the fields type and error, and an empty line.
IsErrorLines(item) ==
    /\ item.prefix = DataPrefix
    /\ item.trailer = <<"\n", "\n">>
    /\ item.payload.t = "obj"
    /\ DOMAIN item.payload.v = {"type", "error"}

\* C7, amended: every item written to a started response is a `0` or `9`
\* unified frame, except the items written for upstream transport errors,
\* which are a `data: {"type":"error","error":...}` line and an empty line;
\* a request that was not started writes nothing.
C7_UnifiedFrameOrErrorLines ==
    \A s \in Streams :
        /\ \A i \in 1..Len(out[s]) :
             IsUnifiedFrame(out[s][i]) \/ IsErrorLines(out[s][i])
        /\ \A i \in 1..Len(out[s]) :
             IsErrorLines(out[s][i]) <=> hist[s][otrig[s][i]] = ErrSeen
        /\ phase[s] \in {"idle", "badgateway"} => out[s] = <<>>

\* Request 1 has written a text frame, a tool-call frame and an error item.
C7_Witness ==
    /\ \E i \in 1..Len(out[1]) : IsTextFrame(out[1][i])
    /\ \E i \in 1..Len(out[1]) : IsToolFrame(out[1][i])
    /\ \E i \in 1..Len(out[1]) : IsErrorLines(out[1][i])

----------------------------------------------------------------------------
\* C2: in a single stream, a call initiated for index i with id, name and a
\* first fragment a0 and followed by fragment-only entries a1..an for i gets,
\* at the sentinel, exactly one `9` frame, with that id, that name and the
\* JSON parse of a0 a1 ... an joined in arrival order.
C2_CallFinalizedFromItsFragments ==
    \A s \in Streams : \A n \in 1..Len(hist[s]) :
        hist[s][n] = DoneSeen =>
            LET E == OpenEntries(hist[s], n) IN
            \A i \in Indices :
                LET p == LastInit(E, i) IN
                p # 0 =>
                    LET id == E[p].v.id.v
                        name == E[p].v.function.v.name.v
                        text == EArgs(E[p]) \o FragsFrom(E, i, p + 1)
                        J == {j \in MadeBy(s, n) : IdOf(AllItems(s)[j]) = id}
                    IN  /\ Cardinality(J) = 1
                        /\ \A j \in J : AllItems(s)[j] = FrameOfCall(id, name, text)

\* Request 1 got the initiating entry, one fragment and the sentinel, and
\* wrote the frame with the parsed arguments.
C2_Witness ==
    /\ hist[1] = <<LineOf("a_init0"), LineOf("frag0"), DoneSeen>>
    /\ out[1] = <<FrameOfCall("call_a0", "executeSQL", <<"{", "sql", "}">>)>>
    /\ out[1][1].payload.v.args = Obj([sql |-> Str(<<"S">>)])

----------------------------------------------------------------------------
\* C4: the `9` frames of one sentinel come in the order in which their calls
\* were registered by their initiating entries.
C4_FramesInRegistrationOrder ==
    \A s \in Streams : \A n \in 1..Len(hist[s]) :
        hist[s][n] = DoneSeen =>
            LET E == OpenEntries(hist[s], n)
                Reg(id) == Max({0} \cup {p \in 1..Len(E) :
                                           EIsInit(E[p]) /\ E[p].v.id.v = id})
            IN  \A j1, j2 \in MadeBy(s, n) :
                    j1 < j2 => Reg(IdOf(AllItems(s)[j1])) < Reg(IdOf(AllItems(s)[j2]))

----------------------------------------------------------------------------
\* The output of one convert call on all the lines, from a given table.
AnyOrder(tc_map) == CHOOSE o \in DrainOrders(tc_map) : TRUE

RECURSIVE ConvertLines(_, _, _)
ConvertLines(adapter, ls, tc_map) ==
    IF ls = <<>> THEN <<>>
    ELSE LET r == ConvertLine(adapter, Head(ls), tc_map, AnyOrder(tc_map)) IN
         r.frames \o ConvertLines(adapter, Tail(ls), r.map)

NotErrorLines(item) == ~IsErrorLines(item)

SameFrames(a, b) ==
    /\ Len(a) = Len(b)
    /\ \A j \in 1..Len(a) :
         \/ a[j] = b[j]
         \/ IsToolFrame(a[j]) /\ IsToolFrame(b[j])
    /\ {a[j] : j \in 1..Len(a)} = {b[j] : j \in 1..Len(b)}

\* C3: the frames written for an upstream byte stream are those of the same
\* bytes delivered as one chunk, however the bytes were cut into chunks
\* (the order in which one sentinel's `9` frames come left aside).
C3_ChunkingInvariant ==
    \A s \in Streams :
        (lines[s] = <<>> /\ carry[s] = <<>>) =>
            SameFrames(SelectSeq(out[s], NotErrorLines),
                       ConvertLines(provider[s], Lines(raw[s]), NoCalls))

----------------------------------------------------------------------------
\* The steps of a transport error, and of the lines parsed after one.
HadError(s) == \E m \in 1..Len(hist[s]) : hist[s][m] = ErrSeen

C8_ErrorStep(s) ==
    hist'[s] = Append(hist[s], ErrSeen) =>
        /\ phase[s] = "streaming" /\ phase'[s] = "streaming"
        /\ Len(out'[s]) = Len(out[s]) + 1
        /\ SubSeq(out'[s], 1, Len(out[s])) = out[s]
        /\ LET item == out'[s][Len(out'[s])] IN
               /\ item.payload.t = "obj"
               /\ "error" \in DOMAIN item.payload.v

C8_AfterError(s) ==
    /\ (HadError(s) /\ Parses(s, LineOf("text"))) =>
           /\ NewItems(s) = <<Item(<<"0", ":">>, Str(<<"h", "i">>), <<"\n">>)>>
           /\ phase'[s] = "streaming"
    /\ (HadError(s) /\ Parses(s, LineOf("block_delta"))) =>
           /\ NewItems(s) = <<Item(<<"0", ":">>, Str(<<"h", "o">>), <<"\n">>)>>
           /\ phase'[s] = "streaming"
    /\ (HadError(s) /\ Parses(s, DoneSeen)) =>
           /\ Len(NewItems(s)) = Cardinality(DOMAIN TOOL_CALLS)
           /\ phase'[s] = "streaming"
    /\ (HadError(s) /\ phase[s] = "streaming" /\ lines[s] = <<>> /\ nitems < MaxItems) =>
           ENABLED RecvChunk(s)

\* C8: an upstream transport error after the start does not end the client
\* stream: it writes exactly one item, a JSON object with an `error` field
\* (on a `data: ` line), after the items written before; a text event or a
\* sentinel the request parses after an error is converted as ever, and the
\* next chunk can be received.
C8_ErrorInlineStreamGoesOn ==
    [][\A s \in Streams : C8_ErrorStep(s) /\ C8_AfterError(s)]_vars

\* Request 1 met a transport error first and a text event after it, and
\* wrote the error item and then the text frame.
C8_Witness ==
    /\ hist[1] = <<ErrSeen, LineOf("text")>>
    /\ Len(out[1]) = 2
    /\ IsErrorLines(out[1][1])
    /\ IsTextFrame(out[1][2])
    /\ phase[1] = "streaming"

----------------------------------------------------------------------------
\* A line whose entries are all fragment-only and for indices without
\* accumulator; the step that parses one; the origin of an accumulator.
C9_FragmentOnlyLine(l) ==
    /\ SentEntries(l) # <<>>
    /\ \A p \in 1..Len(SentEntries(l)) :
         /\ EIsFrag(SentEntries(l)[p])
         /\ <<"tc_", EIndex(SentEntries(l)[p])>> \notin DOMAIN TOOL_CALLS

C9_Step(s) ==
    \A l \in {LineOf("frag0"), LineOf("frag1")} :
        (Parses(s, l) /\ C9_FragmentOnlyLine(l)) =>
            /\ TOOL_CALLS' = TOOL_CALLS
            /\ NewItems(s) = <<>>
            /\ phase' = phase

C9_MadeByInit(k) ==
    \E s \in Streams : \E m \in 1..Len(hist[s]) :
        \E p \in 1..Len(SentEntries(hist[s][m])) :
            LET e == SentEntries(hist[s][m])[p] IN
            /\ EIsInit(e)
            /\ k = <<"tc_", EIndex(e)>>
            /\ TOOL_CALLS[k].id = e.v.id.v

\* C9: a fragment-only entry for an index without accumulator creates no
\* accumulator, makes no frame and raises no error; every accumulator of the
\* table was made by an initiating entry for its index, so a later sentinel
\* has no frame to emit for an index that got fragments only.
C9_OrphanFragmentDropped ==
    /\ [][\A s \in Streams : C9_Step(s)]_vars
    /\ [](\A k \in DOMAIN TOOL_CALLS : C9_MadeByInit(k))

\* Request 1 got a fragment for index 0 and then the sentinel while nothing
\* was ever initiated: nothing is written and the table is empty.
C9_Witness ==
    /\ hist[1] = <<LineOf("frag0"), DoneSeen>>
    /\ hist[2] = <<>>
    /\ lines[1] = <<>>
    /\ out[1] = <<>>
    /\ TOOL_CALLS = NoCalls
    /\ phase[1] = "streaming"

----------------------------------------------------------------------------
\* The step that parses a sentinel.
C10_Step(s) ==
    Parses(s, DoneSeen) =>
        /\ Len(NewItems(s)) = Cardinality(DOMAIN TOOL_CALLS)
        /\ \A k \in DOMAIN TOOL_CALLS :
             \E j \in 1..Len(NewItems(s)) :
                LET item == NewItems(s)[j] IN
                /\ IsUnifiedFrame(item) /\ IsToolFrame(item)
                /\ IdOf(item) = TOOL_CALLS[k].id
                /\ item.payload.v.toolName.v = TOOL_CALLS[k].name
                /\ ~FromStr(TOOL_CALLS[k].arguments).ok =>
                       /\ item.payload.v.args.t = "obj"
                       /\ DOMAIN item.payload.v.args.v = {}
        /\ TOOL_CALLS' = NoCalls
        /\ phase'[s] = "streaming"

\* C10: at the sentinel every accumulator of the table gets its `9` frame,
\* with `args` the empty object when its argument text is not valid JSON;
\* the table is emptied and the stream goes on.
C10_MalformedArgsBecomeEmptyObject ==
    [][\A s \in Streams : C10_Step(s)]_vars

\* Request 1 finalized two calls at one sentinel: call_a0, whose text "{sql"
\* is not JSON, with the empty object, and call_a1 with its parsed object.
C10_Witness ==
    /\ hist[1] = <<LineOf("a_init0"), LineOf("a_init1"), <<>>, LineOf("frag1"), DoneSeen>>
    /\ Len(out[1]) = 2
    /\ \E j \in 1..2 :
         /\ IdOf(out[1][j]) = "call_a0"
         /\ out[1][j].payload.v.args = EmptyObj
    /\ \E j \in 1..2 :
         /\ IdOf(out[1][j]) = "call_a1"
         /\ out[1][j].payload.v.args = Obj([sql |-> Str(<<"S">>)])
    /\ phase[1] = "streaming"

----------------------------------------------------------------------------
(* What the client asked for, read from the posted body.                   *)

\* The model name of a body that was accepted.
ModelOf(b) == IF "model" \in DOMAIN b.v THEN b.v.model.v ELSE DefaultModel

\* The name starts with "claude", in any mix of upper and lower case.
NamesClaude(m) ==
    /\ Len(m) >= 6
    /\ m[1] \in {"c", "C"} /\ m[2] \in {"l", "L"} /\ m[3] \in {"a", "A"}
    /\ m[4] \in {"u", "U"} /\ m[5] \in {"d", "D"} /\ m[6] \in {"e", "E"}

\* The request got past the parsing of its body.
Accepted(s) == phase[s] \notin {"idle", "badrequest"}

\* C13: a request whose model starts with "claude", compared without regard
\* to case, is handled by the Anthropic adapter and every other request, the
\* one with the empty model name included, by the OpenAI adapter; the body
\* sent upstream is the body of that adapter and of no other.
C13_AdapterByModelName ==
    \A s \in Streams : Accepted(s) =>
        /\ provider[s] = IF NamesClaude(ModelOf(body[s])) THEN "anthropic" ELSE "openai"
        /\ request_body[s].t = "obj" =>
              ("max_tokens" \in DOMAIN request_body[s].v <=> provider[s] = "anthropic")

\* Request 1 named the model CLAUDE, and the Anthropic adapter has sent its body.
C13_Witness ==
    /\ body[1].t = "obj"
    /\ "model" \in DOMAIN body[1].v
    /\ body[1].v.model = Str(<<"C", "L", "A", "U", "D", "E">>)
    /\ provider[1] = "anthropic"
    /\ phase[1] = "sending"
    /\ "max_tokens" \in DOMAIN request_body[1].v

----------------------------------------------------------------------------
\* The temperature of a body that was accepted, in tenths.
TemperatureOf(b) ==
    IF "temperature" \in DOMAIN b.v THEN b.v.temperature.v ELSE DefaultTemperature

NamesO1OrO3(m) == Len(m) >= 2 /\ m[1] = "o" /\ m[2] \in {"1", "3"}

NamesGpt5(m) ==
    /\ Len(m) >= 5
    /\ m[1] = "g" /\ m[2] = "p" /\ m[3] = "t" /\ m[4] = "-" /\ m[5] = "5"

\* The OpenAI adapter has built the body of request s.
OpenAiSent(s) == provider[s] = "openai" /\ request_body[s].t = "obj"

\* C14: the body the OpenAI adapter sends for a model that starts with "o1"
\* or "o3" holds no `temperature` and no `tools`, whatever temperature the
\* request gave.
C14_O1O3NoTemperatureNoTools ==
    \A s \in Streams :
        (OpenAiSent(s) /\ NamesO1OrO3(ModelOf(body[s]))) =>
            /\ "temperature" \notin DOMAIN request_body[s].v
            /\ "tools" \notin DOMAIN request_body[s].v

\* Request 1 asked for o1-m at temperature 0.7 and its body was sent.
C14_Witness ==
    /\ OpenAiSent(1)
    /\ phase[1] = "sending"
    /\ ModelOf(body[1]) = <<"o", "1", "-", "m">>
    /\ TemperatureOf(body[1]) = 7
    /\ DOMAIN request_body[1].v = {"model", "messages", "stream"}

----------------------------------------------------------------------------
\* C15: the body the OpenAI adapter sends holds `temperature` exactly when
\* the request's temperature is not zero and the model starts with none of
\* "o1", "o3", "gpt-5", and then it is the request's temperature; a model
\* that starts with "gpt-5" gets no `temperature` but gets the `tools` of
\* the catalog.
C15_TemperatureOnlyWhereSupported ==
    \A s \in Streams : OpenAiSent(s) =>
        LET m == ModelOf(body[s])
            t == TemperatureOf(body[s])
            sent == request_body[s].v
        IN  /\ "temperature" \in DOMAIN sent <=>
                  (t # 0 /\ ~NamesO1OrO3(m) /\ ~NamesGpt5(m))
            /\ "temperature" \in DOMAIN sent => sent.temperature = Num(t)
            /\ NamesGpt5(m) =>
                  /\ "temperature" \notin DOMAIN sent
                  /\ "tools" \in DOMAIN sent
                  /\ Len(sent.tools.v) = Len(CreateTools)

\* Request 1 asked for gpt-5-m at temperature 0.7: the body sent has the
\* tools and no temperature.
C15_Witness ==
    /\ OpenAiSent(1)
    /\ phase[1] = "sending"
    /\ ModelOf(body[1]) = <<"g", "p", "t", "-", "5", "-", "m">>
    /\ TemperatureOf(body[1]) = 7
    /\ DOMAIN request_body[1].v = {"model", "messages", "stream", "tools"}

----------------------------------------------------------------------------
\* The maxSteps of a body that was accepted: a number, or None.
MaxStepsOf(b) ==
    IF "maxSteps" \in DOMAIN b.v /\ b.v.maxSteps.t = "num" THEN b.v.maxSteps ELSE None

\* The Anthropic adapter was chosen for request s and found its key.
AnthropicRan(s) ==
    Accepted(s) /\ provider[s] = "anthropic" /\ "ANTHROPIC_API_KEY" \in env

\* C16: the Anthropic adapter never fails on computing max_tokens, and the
\* body it sends has max_tokens 4096 when the request gave no maxSteps (or
\* the catalog is empty) and the product maxSteps * 1000 of the integers
\* for every maxSteps the parser accepted.
C16_MaxTokensIsProduct ==
    \A s \in Streams : AnthropicRan(s) =>
        /\ phase[s] # "panicked"
        /\ request_body[s].t = "obj"
        /\ request_body[s].v.max_tokens =
              Num(IF MaxStepsOf(body[s]).t = "num" /\ CreateTools # <<>>
                  THEN Product(MaxStepsOf(body[s]).v, 1000)
                  ELSE U32(4096))

----------------------------------------------------------------------------
\* The member k of a posted body is left out.
Absent(b, k) == k \notin DOMAIN b.v

\* The posted body is a JSON object that matches ChatRequest: messages is
\* an array of objects with a string role and a string content, and model,
\* temperature and maxSteps, where given, are a string, a number and an
\* unsigned number (or null).
WellFormed(b) ==
    /\ b.t = "obj"
    /\ ~Absent(b, "messages")
    /\ b.v.messages.t = "arr"
    /\ \A i \in 1..Len(b.v.messages.v) :
         LET m == b.v.messages.v[i] IN
         /\ m.t = "obj"
         /\ {"role", "content"} \subseteq DOMAIN m.v
         /\ m.v.role.t = "str" /\ m.v.content.t = "str"
    /\ Absent(b, "model") \/ b.v.model.t = "str"
    /\ Absent(b, "temperature") \/ b.v.temperature.t = "num"
    /\ \/ Absent(b, "maxSteps")
       \/ b.v.maxSteps.t = "null"
       \/ b.v.maxSteps.t = "num" /\ b.v.maxSteps.v >= 0

\* C18: a posted body that is not a JSON object matching ChatRequest is
\* answered with status 400, and no adapter is chosen, no request is built for
\* and none sent to a provider; a matching body is not rejected, and a
\* model, temperature or maxSteps it leaves out is the default model, the
\* temperature 0.2 and no maxSteps.
C18_MalformedBodyRejectedFirst ==
    \A s \in Streams : phase[s] # "idle" =>
        IF WellFormed(body[s])
        THEN /\ phase[s] # "badrequest"
             /\ response[s].status # 400
             /\ Absent(body[s], "model") => request[s].model = DefaultModel
             /\ Absent(body[s], "temperature") => request[s].temperature = 2
             /\ Absent(body[s], "maxSteps") => request[s].max_steps = None
        ELSE /\ phase[s] = "badrequest"
             /\ response[s].status = 400
             /\ provider[s] = "none"
             /\ request[s] = None
             /\ request_body[s] = None

\* Request 1 posted messages whose second message has no role, with a
\* model: it was answered 400 and no adapter was chosen.
C18_Witness ==
    /\ body[1].t = "obj"
    /\ {"messages", "model"} \subseteq DOMAIN body[1].v
    /\ body[1].v.messages.t = "arr"
    /\ Len(body[1].v.messages.v) = 2
    /\ "role" \notin DOMAIN body[1].v.messages.v[2].v
    /\ body[1].v.model.t = "str"
    /\ phase[1] = "badrequest"
    /\ response[1].status = 400
    /\ provider[1] = "none"

----------------------------------------------------------------------------
\* A request whose upstream call failed has the gateway error as its whole
\* response and took no part in the conversion.
C17_Failed(s) ==
    phase[s] = "badgateway" =>
        /\ response[s].status = 502
        /\ response[s].content_type # "text/event-stream"
        /\ out[s] = <<>> /\ result[s] = <<>>
        /\ raw[s] = <<>> /\ lines[s] = <<>> /\ hist[s] = <<>>

\* The step in which the upstream call of request s fails, and the steps
\* after it.
C17_Step(s) ==
    /\ (phase[s] # "badgateway" /\ phase'[s] = "badgateway") =>
          /\ phase[s] = "sending"
          /\ TOOL_CALLS' = TOOL_CALLS
    /\ phase[s] = "badgateway" =>
          /\ phase'[s] = "badgateway"
          /\ hist'[s] = hist[s]
          /\ response'[s] = response[s]

\* C17: when the upstream call fails before the streaming starts (send()
\* fails, or the upstream status is no success), the request ends with
\* status 502, without the streaming headers, without a frame and without a
\* byte of the upstream's body; the failing step leaves the accumulator
\* table as it is and the request never parses a line.
C17_UpstreamFailureBeforeStart ==
    /\ [](\A s \in Streams : C17_Failed(s))
    /\ [][\A s \in Streams : C17_Step(s)]_vars

\* The upstream call of request 1 failed while request 2 was streaming and
\* had an accumulator in the table.
C17_Witness ==
    /\ phase[1] = "badgateway"
    /\ response[1].status = 502
    /\ out[1] = <<>>
    /\ phase[2] = "streaming"
    /\ hist[2] # <<>>
    /\ TOOL_CALLS # NoCalls

----------------------------------------------------------------------------
\* The JSON object a parsed line carried as its data, None for a line that
\* is no `data: ` line or whose data is no JSON object.
EventOf(l) == IF SymOf(l) \in Members THEN MembersValue(SymOf(l)) ELSE None

\* The line is a content_block_delta event with a string delta.text.
IsTextDeltaEvent(l) ==
    LET e == EventOf(l) IN
    /\ e.t = "obj"
    /\ "type" \in DOMAIN e.v /\ e.v.type = Str("content_block_delta")
    /\ "delta" \in DOMAIN e.v /\ e.v.delta.t = "obj"
    /\ "text" \in DOMAIN e.v.delta.v /\ e.v.delta.v.text.t = "str"

\* One `0` frame per text delta event of the lines h, in their order.
RECURSIVE C11_Frames(_)
C11_Frames(h) ==
    IF h = <<>> THEN <<>>
    ELSE (IF IsTextDeltaEvent(Head(h))
          THEN <<Item(<<"0", ":">>, Str(EventOf(Head(h)).v.delta.v.text.v), <<"\n">>)>>
          ELSE <<>>)
         \o C11_Frames(Tail(h))

\* C11: the items the Anthropic normalizer has made are one `0` frame with
\* the event's text per content_block_delta event with a string delta.text,
\* in the order of the events, and nothing else: message_stop, [DONE], the
\* other event types, data that is no JSON and lines that are no `data: `
\* lines make no item, end nothing and touch no accumulator.
C11_AnthropicTextDeltasOnly ==
    \A s \in Streams : provider[s] = "anthropic" =>
        /\ AllItems(s) = C11_Frames(hist[s])
        /\ hist[s] # <<>> => phase[s] = "streaming"
        /\ TOOL_CALLS = NoCalls

\* The Anthropic upstream of request 1 sent a text delta, a JSON delta, a
\* second text delta and message_stop: two frames were written.
C11_Witness ==
    /\ provider[1] = "anthropic"
    /\ hist[1] = <<LineOf("block_delta"), LineOf("json_delta"),
                   LineOf("block_delta2"), LineOf("message_stop")>>
    /\ out[1] = <<Item(<<"0", ":">>, Str(<<"h", "o">>), <<"\n">>),
                  Item(<<"0", ":">>, Str(<<"!">>), <<"\n">>)>>

----------------------------------------------------------------------------
\* The delta of the first choice of an event, None if it has none.
FirstDelta(l) ==
    LET e == EventOf(l) IN
    IF /\ e.t = "obj" /\ "choices" \in DOMAIN e.v
       /\ e.v.choices.t = "arr" /\ Len(e.v.choices.v) > 0
       /\ e.v.choices.v[1].t = "obj" /\ "delta" \in DOMAIN e.v.choices.v[1].v
    THEN e.v.choices.v[1].v.delta
    ELSE None

\* The line is a data event whose choices[0].delta.content is a string.
IsContentEvent(l) ==
    /\ FirstDelta(l).t = "obj"
    /\ "content" \in DOMAIN FirstDelta(l).v
    /\ FirstDelta(l).v.content.t = "str"

\* The line is a data event (not the sentinel) that is no JSON, has no
\* choices, or carries neither a content string nor tool_calls.
IsIgnoredEvent(l) ==
    /\ StartsWith(l, DataPrefix)
    /\ l # DoneSeen
    /\ ~IsContentEvent(l)
    /\ FirstDelta(l).t = "obj" => "tool_calls" \notin DOMAIN FirstDelta(l).v

RECURSIVE C12_Frames(_)
C12_Frames(h) ==
    IF h = <<>> THEN <<>>
    ELSE (IF IsContentEvent(Head(h))
          THEN <<Item(<<"0", ":">>, Str(FirstDelta(Head(h)).v.content.v), <<"\n">>)>>
          ELSE <<>>)
         \o C12_Frames(Tail(h))

C12_Step(s) ==
    (/\ provider[s] = "openai"
     /\ lines[s] # <<>>
     /\ hist'[s] = Append(hist[s], Head(lines[s]))
     /\ IsIgnoredEvent(Head(lines[s]))) =>
        /\ NewItems(s) = <<>>
        /\ TOOL_CALLS' = TOOL_CALLS
        /\ phase' = phase

\* C12: the `0` frames the OpenAI normalizer has made are one frame with the
\* event's content per data event whose choices[0].delta.content is a
\* string, in the order of the events; an event that is no JSON, has no
\* choices, or carries neither content nor tool_calls makes no item, ends
\* nothing and leaves the accumulator table as it is.
C12_OpenAiContentOnly ==
    /\ [](\A s \in Streams : provider[s] = "openai" =>
             SelectSeq(AllItems(s), IsTextFrame) = C12_Frames(hist[s]))
    /\ [][\A s \in Streams : C12_Step(s)]_vars

\* The OpenAI upstream of request 1 initiated a call and then sent a content
\* event, data that is no JSON and a role-only event: one frame was written
\* and the accumulator is as the initiating entry made it.
C12_Witness ==
    /\ provider[1] = "openai"
    /\ hist[1] = <<LineOf("a_init0"), LineOf("text"),
                   DataPrefix \o <<"{", "x">>, LineOf("role")>>
    /\ out[1] = <<Item(<<"0", ":">>, Str(<<"h", "i">>), <<"\n">>)>>
    /\ DOMAIN TOOL_CALLS = {<<"tc_", 0>>}
    /\ TOOL_CALLS[<<"tc_", 0>>] =
          [id |-> "call_a0", name |-> "executeSQL", arguments |-> <<"{", "sql">>]

----------------------------------------------------------------------------
\* The accumulator an initiating entry describes.
AccumulatorOf(e) ==
    [id |-> e.v.id.v, name |-> e.v.function.v.name.v, arguments |-> EArgs(e)]

\* The steps of the OpenAI normalizer on a line with one initiating entry
\* for an index that has an accumulator, on a line with one fragment for
\* such an index, and on the sentinel.
C19_Step(s) ==
    (lines[s] # <<>> /\ hist'[s] = Append(hist[s], Head(lines[s]))) =>
        LET l == Head(lines[s])
            e == SentEntries(l)[1]
            key == <<"tc_", EIndex(e)>>
        IN  /\ (Len(SentEntries(l)) = 1 /\ EIsInit(e) /\ key \in DOMAIN TOOL_CALLS) =>
                  /\ TOOL_CALLS' = [TOOL_CALLS EXCEPT ![key] = AccumulatorOf(e)]
                  /\ NewItems(s) = <<>>
            /\ (Len(SentEntries(l)) = 1 /\ EIsFrag(e) /\ key \in DOMAIN TOOL_CALLS) =>
                  /\ TOOL_CALLS' = [TOOL_CALLS EXCEPT ![key].arguments = @ \o EArgs(e)]
                  /\ NewItems(s) = <<>>
            /\ l = DoneSeen =>
                  /\ Len(NewItems(s)) = Cardinality(DOMAIN TOOL_CALLS)
                  /\ \A k \in DOMAIN TOOL_CALLS :
                       \E j \in 1..Len(NewItems(s)) :
                          NewItems(s)[j] = FrameOfCall(TOOL_CALLS[k].id, TOOL_CALLS[k].name,
                                                       TOOL_CALLS[k].arguments)

\* C19: an entry with an id and a function.name for an index that has an
\* accumulator replaces it: the accumulator becomes the id, the name and the
\* arguments of the entry, whatever was accumulated before; a fragment that
\* follows is appended to these arguments, and the sentinel emits, for the
\* index, the frame of the accumulator as it then is.
C19_InitiationReplacesAccumulator ==
    [][\A s \in Streams : C19_Step(s)]_vars

\* Request 1 got an initiating entry for index 0 and a fragment, then a
\* second initiating entry for index 0 and a fragment, then the sentinel:
\* its one frame is the second call's, with the arguments sent since.
C19_Witness ==
    /\ hist[1] = <<LineOf("a_init0"), LineOf("frag0"), LineOf("a_reinit0"),
                   LineOf("frag0"), DoneSeen>>
    /\ out[1] = <<FrameOfCall("call_a2", "addTransformation", <<"{", "sql", "}">>)>>
    /\ out[1][1].payload.v.args = Obj([sql |-> Str(<<"S">>)])
    /\ TOOL_CALLS = NoCalls

----------------------------------------------------------------------------
\* C20: no accumulator has an empty name, and no `9` frame an empty
\* toolName: an entry with an id and a function object without a name
\* creates no accumulator.
C20_NoAccumulatorWithoutName ==
    /\ \A k \in DOMAIN TOOL_CALLS : TOOL_CALLS[k].name # ""
    /\ \A s \in Streams : \A j \in ToolFramesOf(s) :
          AllItems(s)[j].payload.v.toolName.v # ""

----------------------------------------------------------------------------
\* The initiating entries among the lines request s has parsed, and the
\* `9` frames it has made.
InitiationsOf(s) ==
    LET E == EntriesIn(hist[s], 1, Len(hist[s]))
    IN  Cardinality({p \in 1..Len(E) : EIsInit(E[p])})

RECURSIVE Sum(_, _)
Sum(f, S) ==
    IF S = {} THEN 0
    ELSE LET x == CHOOSE y \in S : TRUE IN f[x] + Sum(f, S \ {x})

C21_Step(s) ==
    Parses(s, DoneSeen) =>
        /\ TOOL_CALLS' = NoCalls
        /\ TOOL_CALLS = NoCalls => NewItems(s) = <<>>

\* C21: the sentinel leaves no accumulator in the table, so a sentinel that
\* finds the table empty (no initiation since the sentinel before) makes no
\* `9` frame, and the `9` frames made so far and the accumulators still in
\* the table are together no more than the initiating entries parsed: an
\* initiating entry gives at most one frame.
C21_FinalizationDiscards ==
    /\ [][\A s \in Streams : C21_Step(s)]_vars
    /\ [](Sum([s \in Streams |-> Cardinality(ToolFramesOf(s))], Streams)
            + Cardinality(DOMAIN TOOL_CALLS)
          <= Sum([s \in Streams |-> InitiationsOf(s)], Streams))

\* Request 1 got an initiating entry and two sentinels while request 2 did
\* nothing: one frame was written, by the first sentinel.
C21_Witness ==
    /\ hist[1] = <<LineOf("a_init0"), DoneSeen, DoneSeen>>
    /\ hist[2] = <<>>
    /\ Len(out[1]) = 1
    /\ IsToolFrame(out[1][1])
    /\ otrig[1] = <<2>>
    /\ TOOL_CALLS = NoCalls

----------------------------------------------------------------------------
\* The convert call of request s is between taking and releasing the lock.
InBlock(s) == pc[s] \in {"locked", "processed"}

C22_Held ==
    \A s \in Streams :
        /\ lock = s <=> InBlock(s)
        /\ InBlock(s) =>
              /\ provider[s] = "openai"
              /\ lines[s] # <<>>
              /\ \/ Head(lines[s]) = DoneSeen
                 \/ SentEntries(Head(lines[s])) # <<>>
        /\ lines[s] = <<>> => lock # s

C22_Step(s) ==
    /\ (lock # s /\ lock' = s) => (lock = 0 /\ pc[s] = "run")
    /\ (lock = s /\ lock' # s) => lock' = 0
    /\ lock = s => (lines'[s] = lines[s] /\ out'[s] = out[s] /\ phase'[s] = phase[s])

\* C22: the lock is held only by a convert call that is on a sentinel line
\* or on an event with tool_calls, and only for that line; a call that
\* holds it does not ask for it; no request holds it while it waits for a
\* chunk or writes to its client; and, the steps of the calls being taken
\* fairly, every chunk a request has received is converted to its end,
\* whatever the other requests do or fail to do (so every held lock is
\* released: it is held only while lines are left, and not after).
C22_TasksDoNotBlockOneAnother ==
    /\ []C22_Held
    /\ [][\A s \in Streams : C22_Step(s)]_vars
    /\ \A s \in Streams : (lines[s] # <<>>) ~> (lines[s] = <<>>)

\* Request 1 holds the lock on its sentinel while request 2 has a
\* tool-call event to convert and waits for the lock.
C22_Witness ==
    /\ lock = 1
    /\ pc[1] = "locked"
    /\ Head(lines[1]) = DoneSeen
    /\ pc[2] = "run"
    /\ lines[2] # <<>>
    /\ Head(lines[2]) = LineOf("b_init0")
    /\ ~ENABLED Lock(2)

====
